---- MODULE Spec2Model ----
(***************************************************************************)
(* Model of the listing traversal of src/src/list.go: the entry points     *)
(* List, ListShared and ListMatches, the predicate builder, and             *)
(* Commands.breadthFirst walking a remote tree through the paired          *)
(* entry/error channels of a page source.                                  *)
(***************************************************************************)
EXTENDS Integers, Sequences, FiniteSets, TLC

\* Bounds of the model.
MaxNode == 3      \* remote entries are 1..MaxNode

\* The depth option ranges over -1..MaxDepth: the deepest tree has MaxNode
\* levels, and the largest depth still cuts its last level off.
MaxDepth == MaxNode - 2

VARIABLES
    rem,      \* the remote store: parent and isDir of every entry
    opts,     \* g.opts: Depth, InTrash, Hidden, canPrompt, onlyFiles, dirsOnly,
              \* sorters
    entry,    \* who calls breadthFirst: "List", "ListShared", "ListMatches",
              \* or a direct "breadthFirst" call
    trav0,    \* the traversalSt of a direct breadthFirst call
    ep,       \* the entry point's own state: sources (what each locator or
              \* channel receive yields: an entry, 0 for nil, -1 for an error),
              \* srcIdx, warned, traversalCount
    mq,       \* the predicate builder: meta (the keys present), exactMatch,
              \* query (the matchQuery built)
    pcL,      \* position of the caller: "resolve", "collect", "recv", "build",
              \* "loop", "stop", "done"
    kvIdx,    \* index of the range loop over kvList
    stack,    \* the active breadthFirst calls, innermost last
    events,   \* what has happened, in order: fetch, render, prompt, ret,
              \* error (the logged fetch error), nil (a nil entry)
    spin,     \* the busy indicator: "idle", "playing", "paused", "stopped"
    err       \* what the entry point returned: "unset" until it returns, "nil"
              \* or "error"

vars == <<rem, opts, entry, trav0, ep, mq, pcL, kvIdx, stack, events, spin, err>>

----------------------------------------------------------------------------
\* The remote tree.

\* The remote entries.
Nodes == DOMAIN rem.parent

\* buildExpression(parentId, mask, inTrash), as a test on an entry: n is a
\* child of d, and a directory when the mask asks for directories only.
buildExpression(d, n) == rem.parent[n] = d /\ (opts.dirsOnly => rem.isDir[n])

\* The listing the page source yields for directory d: the entries that match
\* the expression of the paginator. Listing(0) is the set of roots.
Listing(d) ==
    {n \in Nodes : IF d = 0 THEN rem.parent[n] = 0 ELSE buildExpression(d, n)}

RECURSIVE Level(_)
\* Directory levels between n and the root of its tree (a root is at 0).
Level(n) == IF rem.parent[n] = 0 THEN 0 ELSE 1 + Level(rem.parent[n])

RECURSIVE Ancestors(_)
\* n and the directories above it.
Ancestors(n) == IF rem.parent[n] = 0 THEN {n} ELSE {n} \cup Ancestors(rem.parent[n])

RECURSIVE Ascending(_)
Ascending(S) ==
    IF S = {} THEN <<>>
    ELSE LET m == CHOOSE x \in S : \A y \in S : x <= y
         IN <<m>> \o Ascending(S \ {m})

\* The resolved roots an entry point traverses, in the order of opts.Sources.
kvList == SelectSeq(ep.sources, LAMBDA x : x > 0)

\* The entries whose name starts with a dot.
DotNames == {2}

\* isHidden(file.Name, g.opts.Hidden): a dot-name is hidden unless hidden
\* files are asked for.
isHidden(n, ignore) == IF n \in DotNames THEN ~ignore ELSE FALSE

\* The name key the sorter compares: names descend with the entry number.
Name(n) == 0 - n

RECURSIVE Insert(_, _)
Insert(s, x) ==
    IF s = <<>> THEN <<x>>
    ELSE IF Name(x) < Name(Head(s)) THEN <<x>> \o s
    ELSE <<Head(s)>> \o Insert(Tail(s), x)

RECURSIVE sort(_)
\* g.sort(collector, sorters...): a stable sort by name.
sort(s) == IF s = <<>> THEN <<>> ELSE Insert(sort(SubSeq(s, 1, Len(s) - 1)), s[Len(s)])

----------------------------------------------------------------------------
\* Events.
Ev(op, f, v) == <<op, f, v>>

Renders(evs) == SelectSeq(evs, LAMBDA e : e[1] = "render")

----------------------------------------------------------------------------
\* The predicate builder.

\* The keys of g.opts.Meta the builder looks up.
MetaKeys ==
    {"SkipMimeKeyKey", "MatchMimeKeyKey", "ExactTitleKey", "ExactOwnerKey", "MatchOwnerKey", "NotOwnerKey"}

\* One fuzzyStringsValuePair; the values are those stored under key.
Pair(level, key, inTrash, joiner) ==
    [fuzzyLevel |-> level, values |-> key, inTrash |-> inTrash, joiner |-> joiner]

\* The clause a key adds when g.opts.Meta holds it.
WhenKey(g, key, pair) == IF key \in g.Meta THEN <<pair>> ELSE <<>>

\* g.createMatchQuery(exactMatch), g being the options it reads: the keys of
\* Meta and InTrash. The body never reads exactMatch.
createMatchQuery(g, exactMatch) ==
    [inTrash |-> g.InTrash,
     mimeQuerySearches |->
         WhenKey(g, "SkipMimeKeyKey", Pair("Not", "SkipMimeKeyKey", g.InTrash, "And"))
         \o WhenKey(g, "MatchMimeKeyKey", Pair("Is", "MatchMimeKeyKey", g.InTrash, "Or")),
     titleSearches |->
         WhenKey(g, "ExactTitleKey", Pair("Is", "ExactTitleKey", g.InTrash, "Or")),
     ownerSearches |->
         WhenKey(g, "ExactOwnerKey", Pair("Is", "ExactOwnerKey", FALSE, "Or"))
         \o WhenKey(g, "MatchOwnerKey", Pair("Like", "MatchOwnerKey", FALSE, "Or"))
         \o WhenKey(g, "NotOwnerKey", Pair("NotIn", "NotOwnerKey", FALSE, "And"))]

----------------------------------------------------------------------------
\* The indicator: stop() leaves it stopped, whatever it was doing.
Stop(s) == "stopped"

----------------------------------------------------------------------------
\* The traversalSt an entry point builds for root f: List and ListMatches
\* pass sorters(g.opts), ListShared leaves the sorters nil.
ListTravSt(f) ==
    [file |-> f, depth |-> opts.Depth, inTrash |-> opts.InTrash,
     explicitNoPrompt |-> FALSE,
     sorters |-> IF entry = "ListShared" THEN FALSE ELSE opts.sorters]

\* Mutant of CallerNext: the range loop goes on to the next root whatever the
\* call returned.
CallerNextContinue(ok) ==
    IF entry \in {"List", "ListShared"}
    THEN [stack |-> <<>>, pcL |-> "loop", kvIdx |-> kvIdx + 1]
    ELSE IF entry = "ListMatches"
    THEN [stack |-> <<>>, pcL |-> "recv", kvIdx |-> kvIdx]
    ELSE [stack |-> <<>>, pcL |-> "done", kvIdx |-> kvIdx]

\* What the entry point does when the breadthFirst call it made returns ok.
\* The range loops of List and ListShared break on false. In ListMatches the
\* break stands inside the select, so the for loop goes round to the next
\* receive whatever the call returned.
CallerNext(ok) ==
    IF entry \in {"List", "ListShared"}
    THEN [stack |-> <<>>,
          pcL |-> IF ok THEN "loop" ELSE "stop",
          kvIdx |-> IF ok THEN kvIdx + 1 ELSE kvIdx]
    ELSE IF entry = "ListMatches"
    THEN [stack |-> <<>>, pcL |-> "recv", kvIdx |-> kvIdx]
    ELSE [stack |-> <<>>, pcL |-> "done", kvIdx |-> kvIdx]

\* Mutant of Returned: a child's failure does not stop the loop over the
\* children.
ReturnedIgnoring(stk, ok) ==
    IF stk = <<>>
    THEN CallerNext(ok)
    ELSE LET top == stk[Len(stk)]
             new == IF top.idx + 1 > Len(top.children)
                    THEN [top EXCEPT !.idx = top.idx + 1, !.pc = "ret", !.result = ok]
                    ELSE [top EXCEPT !.idx = top.idx + 1]
         IN [stack |-> [stk EXCEPT ![Len(stk)] = new], pcL |-> pcL, kvIdx |-> kvIdx]

\* Mutant of Returned: the prompt is shown between the children.
ReturnedPrompting(stk, ok) ==
    IF stk = <<>>
    THEN CallerNext(ok)
    ELSE LET top == stk[Len(stk)]
             new == IF ~ok THEN [top EXCEPT !.pc = "ret", !.result = FALSE]
                    ELSE IF top.idx + 1 > Len(top.children)
                         THEN [top EXCEPT !.idx = top.idx + 1, !.pc = "ret", !.result = TRUE]
                         ELSE [top EXCEPT !.idx = top.idx + 1,
                                          !.pc = IF top.canPrompt THEN "prompt" ELSE "children"]
         IN [stack |-> [stk EXCEPT ![Len(stk)] = new], pcL |-> pcL, kvIdx |-> kvIdx]

\* The caller's reaction to a breadthFirst call returning ok; stk is the
\* stack of the caller.
Returned(stk, ok) ==
    IF stk = <<>>
    THEN CallerNext(ok)
    ELSE LET top == stk[Len(stk)]
             new == IF ~ok THEN [top EXCEPT !.pc = "ret", !.result = FALSE]
                    ELSE IF top.idx + 1 > Len(top.children)
                         THEN [top EXCEPT !.idx = top.idx + 1, !.pc = "ret", !.result = TRUE]
                         ELSE [top EXCEPT !.idx = top.idx + 1]
         IN [stack |-> [stk EXCEPT ![Len(stk)] = new], pcL |-> pcL, kvIdx |-> kvIdx]

\* Mutant of NextDepth: a positive depth is not decremented.
NextDepthKept(d) == d

\* Mutant of NextDepth: a negative depth is taken for an exhausted one.
NextDepthFloor(d) == IF d > 0 THEN d - 1 ELSE 0

\* The depth the children of a call get.
NextDepth(d) == IF d > 0 THEN d - 1 ELSE d

\* Mutant of CanPrompt: explicitNoPrompt is not looked at.
CanPromptOpts(st) == opts.canPrompt

\* The local canPrompt of a call.
CanPrompt(st) == IF ~st.explicitNoPrompt THEN opts.canPrompt ELSE FALSE

\* The frame of a call that got past the depth gate and paused the
\* indicator to work out its canPrompt.
NewFrame(st) ==
    [file |-> st.file, depth |-> NextDepth(st.depth), inTrash |-> st.inTrash,
     explicitNoPrompt |-> st.explicitNoPrompt, sorters |-> st.sorters,
     canPrompt |-> CanPrompt(st),
     pc |-> "pause", pending |-> Listing(st.file),
     collector |-> <<>>, children |-> <<>>, idx |-> 1, iterCount |-> 0,
     result |-> TRUE]

\* breadthFirst(st) called by the caller whose stack is stk: the leaf case,
\* the depth gate, the indicator's pause.
Call(st, stk) ==
    IF ~rem.isDir[st.file]
    THEN LET r == Returned(stk, TRUE)
         IN /\ events' = events \o <<Ev("render", st.file, TRUE), Ev("ret", st.file, TRUE)>>
            /\ stack' = r.stack /\ pcL' = r.pcL /\ kvIdx' = r.kvIdx
            /\ UNCHANGED spin
    ELSE IF st.depth = 0
    THEN LET r == Returned(stk, TRUE)
         IN /\ events' = Append(events, Ev("ret", st.file, TRUE))
            /\ stack' = r.stack /\ pcL' = r.pcL /\ kvIdx' = r.kvIdx
            /\ UNCHANGED spin
    ELSE /\ stack' = Append(stk, NewFrame(st))
         /\ spin' = "paused"
         /\ UNCHANGED <<pcL, kvIdx, events>>

Top == stack[Len(stack)]
SetTop(f) == [stack EXCEPT ![Len(stack)] = f]

----------------------------------------------------------------------------
\* Trees: entries are numbered breadth first, so that every shape occurs once.
TreeOK(p, d) ==
    /\ \A n \in DOMAIN p : p[n] < n /\ (p[n] # 0 => d[p[n]])
    /\ \A m, n \in DOMAIN p : m < n => p[m] <= p[n]

\* The remote stores of N entries.
Trees(N) ==
    {r \in [parent : [1..N -> 0..N], isDir : [1..N -> BOOLEAN]] :
        TreeOK(r.parent, r.isDir)}

\* The entry point's state once every locator has resolved to its root.
Resolved(roots) ==
    [sources |-> roots, srcIdx |-> Len(roots) + 1, warned |-> <<>>,
     traversalCount |-> 0]

Init ==
    /\ rem \in Trees(MaxNode)
    /\ opts \in [Depth : -1..MaxDepth, InTrash : BOOLEAN, Hidden : BOOLEAN,
                 canPrompt : BOOLEAN, onlyFiles : BOOLEAN, dirsOnly : {FALSE},
                 sorters : BOOLEAN]
    /\ entry = "List"
    /\ trav0 = ListTravSt(1)
    /\ ep = Resolved(Ascending(Listing(0)))
    /\ mq = [meta |-> {}, exactMatch |-> TRUE,
             query |-> createMatchQuery([Meta |-> {}, InTrash |-> opts.InTrash], TRUE)]
    /\ pcL = "loop"
    /\ kvIdx = 1
    /\ stack = <<>>
    /\ events = <<>>
    /\ spin = "playing"
    /\ err = "unset"

\* List, ListShared: the range loop takes the next root and traverses it.
ListVisit ==
    /\ entry \in {"List", "ListShared"} /\ pcL = "loop" /\ stack = <<>>
    /\ kvIdx <= Len(kvList)
    /\ Call(ListTravSt(kvList[kvIdx]), <<>>)
    /\ UNCHANGED <<rem, opts, entry, trav0, ep, mq, err>>

\* List, ListShared: the range loop is exhausted.
ListExhausted ==
    /\ entry \in {"List", "ListShared"} /\ pcL = "loop" /\ stack = <<>>
    /\ kvIdx > Len(kvList)
    /\ pcL' = "stop"
    /\ UNCHANGED <<rem, opts, entry, trav0, ep, mq, kvIdx, stack, events, spin, err>>

\* List, ListShared: spin.stop() and return nil; the deferred spin.stop() of
\* ListShared then stops a stopped indicator.
ListStop ==
    /\ pcL = "stop"
    /\ spin' = IF entry = "ListShared" THEN Stop(Stop(spin)) ELSE Stop(spin)
    /\ pcL' = "done"
    /\ err' = "nil"
    /\ UNCHANGED <<rem, opts, entry, trav0, ep, mq, kvIdx, stack, events>>

----------------------------------------------------------------------------
\* The indicator, once the decision on prompting is made.

\* Mutant of Play: the indicator is left paused.
PlayForgotten ==
    /\ stack # <<>> /\ Top.pc = "pause"
    /\ events' = Append(events, Ev("fetch", Top.file, TRUE))
    /\ stack' = SetTop([Top EXCEPT !.pc = "fetch"])
    /\ UNCHANGED <<rem, opts, entry, trav0, ep, mq, pcL, kvIdx, spin, err>>

\* spin.play(), and the page fetch is issued.
Play ==
    /\ stack # <<>> /\ Top.pc = "pause"
    /\ spin' = "playing"
    /\ events' = Append(events, Ev("fetch", Top.file, TRUE))
    /\ stack' = SetTop([Top EXCEPT !.pc = "fetch"])
    /\ UNCHANGED <<rem, opts, entry, trav0, ep, mq, pcL, kvIdx, err>>

----------------------------------------------------------------------------
\* The select loop of breadthFirst over errsChan and filesChan.

\* case err := <-errsChan, err != nil: log it and return false.
RecvErr ==
    /\ stack # <<>> /\ Top.pc = "fetch"
    /\ events' = Append(events, Ev("error", Top.file, FALSE))
    /\ stack' = SetTop([Top EXCEPT !.pc = "ret", !.result = FALSE])
    /\ UNCHANGED <<rem, opts, entry, trav0, ep, mq, pcL, kvIdx, spin, err>>

\* case err := <-errsChan, err == nil: the loop goes round.
RecvNilErr ==
    /\ stack # <<>> /\ Top.pc = "fetch"
    /\ UNCHANGED vars

\* Mutant of RecvFile: an entry is rendered as it arrives.
RecvFileStreaming(n) ==
    /\ stack # <<>> /\ Top.pc = "fetch"
    /\ n \in Top.pending
    /\ stack' = SetTop([Top EXCEPT
                          !.pending = @ \ {n},
                          !.collector = IF ~isHidden(n, opts.Hidden)
                                        THEN Append(@, n) ELSE @])
    /\ events' = IF ~isHidden(n, opts.Hidden)
                 THEN Append(events, Ev("render", n, TRUE)) ELSE events
    /\ UNCHANGED <<rem, opts, entry, trav0, ep, mq, pcL, kvIdx, spin, err>>

\* case file := <-filesChan, file != nil: collect it unless it is hidden.
RecvFile(n) ==
    /\ stack # <<>> /\ Top.pc = "fetch"
    /\ n \in Top.pending
    /\ stack' = SetTop([Top EXCEPT
                          !.pending = @ \ {n},
                          !.collector = IF ~isHidden(n, opts.Hidden)
                                        THEN Append(@, n) ELSE @])
    /\ UNCHANGED <<rem, opts, entry, trav0, ep, mq, pcL, kvIdx, events, spin, err>>

\* case file := <-filesChan, file == nil: return false.
RecvNilFile ==
    /\ stack # <<>> /\ Top.pc = "fetch"
    /\ events' = Append(events, Ev("nil", Top.file, FALSE))
    /\ stack' = SetTop([Top EXCEPT !.pc = "ret", !.result = FALSE])
    /\ UNCHANGED <<rem, opts, entry, trav0, ep, mq, pcL, kvIdx, spin, err>>

\* The lines pretty() writes for a sorted collector, in order.
Rendered(coll) ==
    SelectSeq(coll, LAMBDA n : ~(opts.onlyFiles /\ rem.isDir[n]))

RenderEvents(coll) == [i \in 1..Len(Rendered(coll)) |-> Ev("render", Rendered(coll)[i], TRUE)]

\* Mutant of Children: under the non-folders-only mask a directory is skipped
\* before it is put in the children list.
ChildrenMasked(coll) == SelectSeq(coll, LAMBDA n : rem.isDir[n] /\ ~opts.onlyFiles)

\* The directory entries of a sorted collector, in order.
Children(coll) == SelectSeq(coll, LAMBDA n : rem.isDir[n])

\* canPage of a frame whose children are known.
CanPage(fr, kids) == fr.depth # 0 /\ Len(kids) > 0

\* Mutant of AfterRender: only the trash flag of the traversalSt is looked at.
AfterRenderOwnTrash(fr, coll) ==
    LET kids == Children(coll)
        base == [fr EXCEPT !.collector = coll, !.children = kids,
                           !.iterCount = Len(Rendered(coll))]
    IN IF ~fr.inTrash
       THEN IF CanPage(fr, kids) /\ fr.canPrompt
            THEN [base EXCEPT !.pc = "prompt"]
            ELSE IF Len(kids) = 0
                 THEN [base EXCEPT !.pc = "ret", !.result = TRUE]
                 ELSE [base EXCEPT !.pc = "children"]
       ELSE [base EXCEPT !.pc = "ret", !.result = (Len(Rendered(coll)) >= 1)]

\* Where a call stands once its level is rendered.
AfterRender(fr, coll) ==
    LET kids == Children(coll)
        base == [fr EXCEPT !.collector = coll, !.children = kids,
                           !.iterCount = Len(Rendered(coll))]
    IN IF ~fr.inTrash /\ ~opts.InTrash
       THEN IF CanPage(fr, kids) /\ fr.canPrompt
            THEN [base EXCEPT !.pc = "prompt"]
            ELSE IF Len(kids) = 0
                 THEN [base EXCEPT !.pc = "ret", !.result = TRUE]
                 ELSE [base EXCEPT !.pc = "children"]
       ELSE [base EXCEPT !.pc = "ret", !.result = (Len(Rendered(coll)) >= 1)]

\* filesChan is closed: leave the loop, sort, render the level, and reach
\* the prompt, the children or the return.
RecvClosed ==
    /\ stack # <<>> /\ Top.pc = "fetch"
    /\ Top.pending = {}
    /\ LET coll == IF Top.sorters THEN sort(Top.collector) ELSE Top.collector
       IN /\ events' = events \o RenderEvents(coll)
          /\ stack' = SetTop(AfterRender(Top, coll))
    /\ UNCHANGED <<rem, opts, entry, trav0, ep, mq, pcL, kvIdx, spin, err>>

\* Mutant of NextPage: the answer is not looked at.
NextPageIgnored(ans) ==
    /\ stack # <<>> /\ Top.pc = "prompt"
    /\ events' = Append(events, Ev("prompt", Top.file, ans))
    /\ stack' = SetTop([Top EXCEPT !.pc = "children"])
    /\ UNCHANGED <<rem, opts, entry, trav0, ep, mq, pcL, kvIdx, spin, err>>

\* nextPage(): the user answers the continuation prompt.
NextPage(ans) ==
    /\ stack # <<>> /\ Top.pc = "prompt"
    /\ events' = Append(events, Ev("prompt", Top.file, ans))
    /\ stack' = SetTop(IF ans THEN [Top EXCEPT !.pc = "children"]
                       ELSE [Top EXCEPT !.pc = "ret", !.result = FALSE])
    /\ UNCHANGED <<rem, opts, entry, trav0, ep, mq, pcL, kvIdx, spin, err>>

\* Mutant of ChildSt: the children are taken from the end of the list.
ChildStReversed(fr) ==
    [file |-> fr.children[Len(fr.children) + 1 - fr.idx], depth |-> fr.depth,
     inTrash |-> fr.inTrash, explicitNoPrompt |-> fr.explicitNoPrompt,
     sorters |-> fr.sorters]

\* The traversalSt of the child at idx.
ChildSt(fr) ==
    [file |-> fr.children[fr.idx], depth |-> fr.depth, inTrash |-> fr.inTrash,
     explicitNoPrompt |-> fr.explicitNoPrompt, sorters |-> fr.sorters]

\* The loop over children calls breadthFirst for the next child.
Recurse ==
    /\ stack # <<>> /\ Top.pc = "children"
    /\ Top.idx <= Len(Top.children)
    /\ Call(ChildSt(Top), stack)
    /\ UNCHANGED <<rem, opts, entry, trav0, ep, mq, err>>

\* A call returns its result to its caller.
Return ==
    /\ stack # <<>> /\ Top.pc = "ret"
    /\ LET r == Returned(SubSeq(stack, 1, Len(stack) - 1), Top.result)
       IN /\ stack' = r.stack /\ pcL' = r.pcL /\ kvIdx' = r.kvIdx
    /\ events' = Append(events, Ev("ret", Top.file, Top.result))
    /\ UNCHANGED <<rem, opts, entry, trav0, ep, mq, spin, err>>

Next ==
    \/ ListVisit \/ ListExhausted \/ ListStop
    \/ Play
    \/ RecvErr \/ RecvNilErr \/ RecvNilFile \/ RecvClosed
    \/ \E n \in Nodes : RecvFile(n)
    \/ \E ans \in BOOLEAN : NextPage(ans)
    \/ Recurse \/ Return

Spec == Init /\ [][Next]_vars

\* The select of the fetch loop is fair, the page source closes its entry
\* channel and the user answers a prompt: a step that can be taken is taken.
FairSpec == Spec /\ WF_vars(Next)

----------------------------------------------------------------------------
\* A direct call of breadthFirst on the directory tree of entry 1, with any
\* traversalSt.
InitBF ==
    /\ rem \in {r \in Trees(MaxNode) : \A n \in DOMAIN r.parent : r.parent[n] = 0 <=> n = 1}
    /\ trav0 \in [file : {1}, depth : -1..MaxDepth, inTrash : BOOLEAN,
                  explicitNoPrompt : BOOLEAN, sorters : BOOLEAN]
    /\ opts \in [Depth : {trav0.depth}, InTrash : BOOLEAN, Hidden : BOOLEAN,
                 canPrompt : BOOLEAN, onlyFiles : BOOLEAN, dirsOnly : {FALSE},
                 sorters : {trav0.sorters}]
    /\ entry = "breadthFirst"
    /\ ep = Resolved(<<1>>)
    /\ mq = [meta |-> {}, exactMatch |-> TRUE,
             query |-> createMatchQuery([Meta |-> {}, InTrash |-> opts.InTrash], TRUE)]
    /\ pcL = "loop"
    /\ kvIdx = 1
    /\ stack = <<>>
    /\ events = <<>>
    /\ spin = "playing"
    /\ err = "unset"

\* The caller calls breadthFirst(trav0, spin).
DirectCall ==
    /\ entry = "breadthFirst" /\ pcL = "loop" /\ stack = <<>>
    /\ Call(trav0, <<>>)
    /\ UNCHANGED <<rem, opts, entry, trav0, ep, mq, err>>

NextBF ==
    \/ DirectCall
    \/ Play
    \/ RecvErr \/ RecvNilErr \/ RecvNilFile \/ RecvClosed
    \/ \E n \in Nodes : RecvFile(n)
    \/ \E ans \in BOOLEAN : NextPage(ans)
    \/ Recurse \/ Return

SpecBF == InitBF /\ [][NextBF]_vars

----------------------------------------------------------------------------
\* List on one root directory that holds every other entry, one more entry
\* than the trees above have, under the directories-only mask or without it.
InitMask ==
    /\ rem \in {r \in Trees(MaxNode + 1) :
                   \A n \in DOMAIN r.parent :
                       /\ r.parent[n] = (IF n = 1 THEN 0 ELSE 1)
                       /\ n = 1 => r.isDir[n]}
    /\ opts \in [Depth : -1..MaxDepth, InTrash : {FALSE}, Hidden : BOOLEAN,
                 canPrompt : BOOLEAN, onlyFiles : {FALSE}, dirsOnly : BOOLEAN,
                 sorters : BOOLEAN]
    /\ entry = "List"
    /\ trav0 = ListTravSt(1)
    /\ ep = Resolved(<<1>>)
    /\ mq = [meta |-> {}, exactMatch |-> TRUE,
             query |-> createMatchQuery([Meta |-> {}, InTrash |-> opts.InTrash], TRUE)]
    /\ pcL = "loop"
    /\ kvIdx = 1
    /\ stack = <<>>
    /\ events = <<>>
    /\ spin = "playing"
    /\ err = "unset"

SpecMask == InitMask /\ [][Next]_vars

----------------------------------------------------------------------------
\* The entry points from their first statement: List resolving its
\* locators, ListShared collecting the shared entries of its paths, and
\* ListMatches receiving its matches.

RECURSIVE Reverse(_)
Reverse(s) == IF s = <<>> THEN <<>> ELSE Append(Reverse(Tail(s)), Head(s))

\* s with x put after its first k elements.
InsertAt(s, k, x) == SubSeq(s, 1, k) \o <<x>> \o SubSeq(s, k + 1, Len(s))

\* What the locators of opts.Sources (for ListShared and ListMatches, the
\* receives from the entry channel) yield, in order: the roots, ascending or
\* descending, and at most one lookup that finds nothing (0) or fails with
\* another error (-1).
SourcesOf(roots) ==
    LET orders == {Ascending(roots), Reverse(Ascending(roots))}
    IN orders \cup
       UNION {{InsertAt(s, k, x) : k \in 0..Len(s), x \in {0, -1}} : s \in orders}

InitEP ==
    /\ rem \in Trees(MaxNode)
    /\ opts \in [Depth : -1..MaxDepth, InTrash : BOOLEAN, Hidden : {TRUE},
                 canPrompt : BOOLEAN, onlyFiles : {FALSE}, dirsOnly : {FALSE},
                 sorters : {TRUE}]
    /\ entry \in {"List", "ListShared", "ListMatches"}
    /\ trav0 = ListTravSt(1)
    /\ ep \in {[sources |-> s, srcIdx |-> 1, warned |-> <<>>, traversalCount |-> 0] :
                  s \in SourcesOf(Listing(0))}
    /\ mq = [meta |-> {}, exactMatch |-> (entry = "List"),
             query |-> createMatchQuery([Meta |-> {}, InTrash |-> opts.InTrash],
                                        entry = "List")]
    /\ pcL = IF entry = "List" THEN "resolve"
             ELSE IF entry = "ListShared" THEN "collect" ELSE "recv"
    /\ kvIdx = 1
    /\ stack = <<>>
    /\ events = <<>>
    /\ spin = IF entry = "List" THEN "idle" ELSE "playing"
    /\ err = "unset"

\* Mutant of ListResolve: a locator that is not found ends List with an
\* error.
ListResolveStrict ==
    /\ entry = "List" /\ pcL = "resolve"
    /\ ep.srcIdx <= Len(ep.sources)
    /\ LET r == ep.sources[ep.srcIdx]
       IN IF r = -1 \/ r = 0
          THEN /\ err' = "error" /\ pcL' = "done" /\ UNCHANGED ep
          ELSE /\ ep' = [ep EXCEPT !.srcIdx = @ + 1]
               /\ UNCHANGED <<err, pcL>>
    /\ UNCHANGED <<rem, opts, entry, trav0, mq, kvIdx, stack, events, spin>>

\* Mutant of ListResolve: every lookup error is warned about and skipped.
ListResolveLenient ==
    /\ entry = "List" /\ pcL = "resolve"
    /\ ep.srcIdx <= Len(ep.sources)
    /\ LET r == ep.sources[ep.srcIdx]
       IN /\ ep' = [ep EXCEPT !.srcIdx = @ + 1,
                              !.warned = IF r <= 0 THEN Append(@, ep.srcIdx) ELSE @]
          /\ UNCHANGED <<err, pcL>>
    /\ UNCHANGED <<rem, opts, entry, trav0, mq, kvIdx, stack, events, spin>>

\* List: the resolver looks the next locator up. Another error than
\* not-found returns at once; not-found is warned about and skipped; a root
\* found joins kvList.
ListResolve ==
    /\ entry = "List" /\ pcL = "resolve"
    /\ ep.srcIdx <= Len(ep.sources)
    /\ LET r == ep.sources[ep.srcIdx]
       IN IF r = -1
          THEN /\ err' = "error" /\ pcL' = "done" /\ UNCHANGED ep
          ELSE /\ ep' = [ep EXCEPT !.srcIdx = @ + 1,
                                   !.warned = IF r = 0 THEN Append(@, ep.srcIdx) ELSE @]
               /\ UNCHANGED <<err, pcL>>
    /\ UNCHANGED <<rem, opts, entry, trav0, mq, kvIdx, stack, events, spin>>

\* List: every locator is resolved; the indicator is created and played.
ListPlay ==
    /\ entry = "List" /\ pcL = "resolve"
    /\ ep.srcIdx > Len(ep.sources)
    /\ spin' = "playing"
    /\ pcL' = "loop"
    /\ UNCHANGED <<rem, opts, entry, trav0, ep, mq, kvIdx, stack, events, err>>

\* ListShared: listSharedPerPath receives from its channels. An error is
\* returned by ListShared at once (the deferred spin.stop() runs), a nil
\* entry is skipped, an entry joins kvList.
SharedCollect ==
    /\ entry = "ListShared" /\ pcL = "collect"
    /\ ep.srcIdx <= Len(ep.sources)
    /\ IF ep.sources[ep.srcIdx] = -1
       THEN /\ err' = "error" /\ pcL' = "done" /\ spin' = Stop(spin)
            /\ UNCHANGED ep
       ELSE /\ ep' = [ep EXCEPT !.srcIdx = @ + 1]
            /\ UNCHANGED <<err, pcL, spin>>
    /\ UNCHANGED <<rem, opts, entry, trav0, mq, kvIdx, stack, events>>

\* ListShared: the channel of the last path is closed.
SharedCollected ==
    /\ entry = "ListShared" /\ pcL = "collect"
    /\ ep.srcIdx > Len(ep.sources)
    /\ pcL' = "loop"
    /\ UNCHANGED <<rem, opts, entry, trav0, ep, mq, kvIdx, stack, events, spin, err>>

\* ListMatches: the select receives. An error is returned at once (the
\* deferred spin.stop() runs), a nil match is skipped, a match is counted
\* and traversed.
MatchRecv ==
    /\ entry = "ListMatches" /\ pcL = "recv" /\ stack = <<>>
    /\ ep.srcIdx <= Len(ep.sources)
    /\ LET r == ep.sources[ep.srcIdx]
       IN IF r = -1
          THEN /\ err' = "error" /\ pcL' = "done" /\ spin' = Stop(spin)
               /\ UNCHANGED <<ep, kvIdx, stack, events>>
          ELSE IF r = 0
          THEN /\ ep' = [ep EXCEPT !.srcIdx = @ + 1]
               /\ UNCHANGED <<err, pcL, spin, kvIdx, stack, events>>
          ELSE /\ ep' = [ep EXCEPT !.srcIdx = @ + 1, !.traversalCount = @ + 1]
               /\ Call(ListTravSt(r), <<>>)
               /\ UNCHANGED err
    /\ UNCHANGED <<rem, opts, entry, trav0, mq>>

\* ListMatches: the channel of matches is closed; "no matches found!" is
\* logged (0 in warned) when nothing was traversed; return nil, and the
\* deferred spin.stop() runs.
MatchClosed ==
    /\ entry = "ListMatches" /\ pcL = "recv" /\ stack = <<>>
    /\ ep.srcIdx > Len(ep.sources)
    /\ ep' = [ep EXCEPT !.warned = IF ep.traversalCount < 1 THEN Append(@, 0) ELSE @]
    /\ err' = "nil" /\ pcL' = "done" /\ spin' = Stop(spin)
    /\ UNCHANGED <<rem, opts, entry, trav0, mq, kvIdx, stack, events>>

\* ListShared, ListMatches: a nil error is received; the loop goes round.
EntryNilErr ==
    /\ \/ entry = "ListShared" /\ pcL = "collect"
       \/ entry = "ListMatches" /\ pcL = "recv" /\ stack = <<>>
    /\ UNCHANGED vars

NextEP ==
    \/ ListResolve \/ ListPlay
    \/ SharedCollect \/ SharedCollected
    \/ MatchRecv \/ MatchClosed \/ EntryNilErr
    \/ ListVisit \/ ListExhausted \/ ListStop
    \/ Play
    \/ RecvErr \/ RecvNilErr \/ RecvNilFile \/ RecvClosed
    \/ \E n \in Nodes : RecvFile(n)
    \/ \E ans \in BOOLEAN : NextPage(ans)
    \/ Recurse \/ Return

SpecEP == InitEP /\ [][NextEP]_vars

----------------------------------------------------------------------------
\* The predicate builder called on any set of Meta keys: by List with
\* exactMatch true, by ListMatches with exactMatch false.

\* The options createMatchQuery reads.
BuilderOpts == [Meta |-> mq.meta, InTrash |-> opts.InTrash]

\* The zero matchQuery.
NoQuery ==
    [inTrash |-> FALSE, mimeQuerySearches |-> <<>>, titleSearches |-> <<>>,
     ownerSearches |-> <<>>]

InitMQ ==
    /\ rem \in Trees(1)
    /\ opts \in [Depth : {-1}, InTrash : BOOLEAN, Hidden : {TRUE},
                 canPrompt : {FALSE}, onlyFiles : {FALSE}, dirsOnly : {FALSE},
                 sorters : {TRUE}]
    /\ mq \in [meta : SUBSET MetaKeys, exactMatch : BOOLEAN, query : {NoQuery}]
    /\ entry = IF mq.exactMatch THEN "List" ELSE "ListMatches"
    /\ trav0 = ListTravSt(1)
    /\ ep = [sources |-> <<>>, srcIdx |-> 1, warned |-> <<>>, traversalCount |-> 0]
    /\ pcL = "build"
    /\ kvIdx = 1
    /\ stack = <<>>
    /\ events = <<>>
    /\ spin = "idle"
    /\ err = "unset"

\* mq := g.createMatchQuery(exactMatch)
BuildQuery ==
    /\ pcL = "build"
    /\ mq' = [mq EXCEPT !.query = createMatchQuery(BuilderOpts, mq.exactMatch)]
    /\ pcL' = "built"
    /\ UNCHANGED <<rem, opts, entry, trav0, ep, kvIdx, stack, events, spin, err>>

\* ListMatches appends its own title clause: Like on opts.Sources.
AppendSources ==
    /\ entry = "ListMatches" /\ pcL = "built"
    /\ mq' = [mq EXCEPT !.query.titleSearches =
                             Append(@, Pair("Like", "Sources", opts.InTrash, "Or"))]
    /\ pcL' = "appended"
    /\ UNCHANGED <<rem, opts, entry, trav0, ep, kvIdx, stack, events, spin, err>>

NextMQ == BuildQuery \/ AppendSources

SpecMQ == InitMQ /\ [][NextMQ]_vars
----------------------------------------------------------------------------
\* Reading the events.

\* The positions of the events op about entry f.
EvAt(op, f) == {i \in DOMAIN events : events[i][1] = op /\ events[i][2] = f}

Has(op, f) == EvAt(op, f) # {}

RECURSIVE RootOf(_)
RootOf(n) == IF rem.parent[n] = 0 THEN n ELSE RootOf(rem.parent[n])

\* The depth the top-level call for the tree of n started with.
StartDepth == IF entry = "breadthFirst" THEN trav0.depth ELSE opts.Depth

\* C1: with depth d >= 0, a call on a directory root renders entries only at
\* levels 1..d below it and fetches only directories at levels 0..d-1; with
\* d = 0 it fetches nothing, renders nothing and returns true.
C1_DepthBound ==
    StartDepth >= 0 =>
        \A i \in DOMAIN events :
            LET op == events[i][1]
                n == events[i][2]
            IN rem.isDir[RootOf(n)] =>
                  /\ op = "render" => Level(n) >= 1 /\ Level(n) <= StartDepth
                  /\ op = "fetch" => Level(n) <= StartDepth - 1
                  /\ (op = "ret" /\ StartDepth = 0) => (Level(n) = 0 /\ events[i][3])

\* A depth-1 listing is over: a first-level entry was rendered and an entry
\* of the second level exists below a rendered directory.
C1_Witness ==
    /\ pcL = "done" /\ StartDepth = 1
    /\ \E n \in Nodes : /\ Level(n) = 2 /\ Has("render", rem.parent[n])
                        /\ Has("ret", rem.parent[n]) /\ ~Has("render", n)
\* The entries of the tree below a, a included.
Subtree(a) == {n \in Nodes : a \in Ancestors(n)}

\* The entries of a listing that get a line: not hidden, and not a directory
\* under the non-folders-only mask.
ShouldRender(n) == ~isHidden(n, opts.Hidden) /\ ~(opts.onlyFiles /\ rem.isDir[n])

\* C2: the continuation prompt of a call is shown at most once, only after
\* the entry channel was seen closed and the whole level was rendered, and
\* before anything of a child directory happens; never while entries arrive.
C2_PromptOncePerLevel ==
    /\ \A i \in DOMAIN events :
          events[i][1] = "prompt" =>
              LET f == events[i][2]
              IN /\ EvAt("prompt", f) = {i}
                 /\ \A n \in Listing(f) :
                       ShouldRender(n) => \E j \in EvAt("render", n) : j < i
                 /\ \A j \in 1..(i - 1) :
                       events[j][2] \in Subtree(f) \ {f} =>
                           events[j][1] = "render" /\ events[j][2] \in Listing(f)
    /\ \A k \in DOMAIN stack :
          /\ stack[k].pc = "fetch" => ~Has("prompt", stack[k].file)
          /\ stack[k].pc = "prompt" => stack[k].pending = {} /\ stack[k].idx = 1

\* The prompt of a level with two or more entries was answered yes and a
\* child of that level was fetched afterwards.
C2_Witness ==
    \E i \in DOMAIN events :
        /\ events[i][1] = "prompt" /\ events[i][3]
        /\ Cardinality(Listing(events[i][2])) >= 2
        /\ \E c \in Listing(events[i][2]) : \E j \in EvAt("fetch", c) : j > i

\* What holds in every state once a fetch error was logged for f.
C3_AfterError ==
    \A i \in DOMAIN events :
        events[i][1] = "error" =>
            LET f == events[i][2]
            IN /\ \A k \in DOMAIN stack :
                     stack[k].file = f => stack[k].pc = "ret" /\ ~stack[k].result
               /\ \A j \in (i + 1)..Len(events) :
                     /\ events[j][1] = "ret" /\ ~events[j][3]
                     /\ events[j][2] \in Ancestors(f)
               /\ stack = <<>> => \E j \in EvAt("ret", RootOf(f)) : j > i /\ ~events[j][3]

\* C3: a non-nil error on the error channel ends the fetch: no further entry
\* is received, the call returns false, the failure reaches the top-level
\* call, which returns false, and the lines rendered before stay in the output.
C3_ErrorEndsFetch ==
    /\ []C3_AfterError
    /\ [][SubSeq(events', 1, Len(events)) = events]_vars

\* The fetch of a second-level directory failed after the root's level was
\* rendered and a sibling directory was visited, and the invocation is over.
C3_Witness ==
    /\ pcL = "done"
    /\ \E i \in DOMAIN events :
          /\ events[i][1] = "error" /\ Level(events[i][2]) = 1
          /\ \E j \in EvAt("render", events[i][2]) : j < i
          /\ \E sib \in Listing(rem.parent[events[i][2]]) :
                /\ sib # events[i][2]
                /\ \E j \in EvAt("render", sib) : j < i
                /\ \E j \in EvAt("fetch", sib) : j < i

\* C4: nothing of a directory's listing is rendered or recursed into before
\* its entry channel was seen closed, and when the fetch ends on a non-nil
\* error or a nil entry none of the collected entries is rendered.
C4_NoPartialPage ==
    /\ \A k \in DOMAIN stack :
          stack[k].pc = "fetch" =>
              /\ stack[k].children = <<>>
              /\ \A i \in DOMAIN events : events[i][2] \notin Listing(stack[k].file)
    /\ \A i \in DOMAIN events :
          events[i][1] \in {"error", "nil"} =>
              \A j \in DOMAIN events : events[j][2] \notin Listing(events[i][2])

\* A fetch that had collected an entry, with more to come, ended on an error.
C4_Witness ==
    /\ stack # <<>>
    /\ Top.pc = "ret" /\ Top.collector # <<>> /\ Top.pending # {}
    /\ Has("error", Top.file)

\* C5: when the user declines the prompt, that call and its ancestors return
\* false, nothing more is rendered, fetched or prompted, and the entry point
\* still returns a nil error.
C5_DeclineAborts ==
    \A i \in DOMAIN events :
        (events[i][1] = "prompt" /\ ~events[i][3]) =>
            LET f == events[i][2]
            IN /\ \A j \in (i + 1)..Len(events) :
                     /\ events[j][1] = "ret" /\ ~events[j][3]
                     /\ events[j][2] \in Ancestors(f)
               /\ stack = <<>> =>
                     \A a \in Ancestors(f) : \E j \in EvAt("ret", a) : ~events[j][3]
               /\ pcL = "done" => err = "nil"

\* The prompt of a directory below the root was declined and List returned.
C5_Witness ==
    /\ pcL = "done"
    /\ \E i \in DOMAIN events :
          /\ events[i][1] = "prompt" /\ ~events[i][3]
          /\ Level(events[i][2]) >= 1

\* C6: when the call for a child directory returns false its parent returns
\* false at once, and no other child of the parent is visited afterwards.
C6_ChildFailurePropagates ==
    \A i \in DOMAIN events :
        (events[i][1] = "ret" /\ ~events[i][3] /\ rem.parent[events[i][2]] # 0) =>
            LET c == events[i][2]
                p == rem.parent[c]
            IN /\ i < Len(events) => events[i + 1] = Ev("ret", p, FALSE)
               /\ i = Len(events) =>
                     stack # <<>> /\ Top.file = p /\ Top.pc = "ret" /\ ~Top.result
               /\ \A j \in (i + 1)..Len(events) :
                     \A sib \in Listing(p) \ {c} : events[j][2] \notin Subtree(sib)

\* A child directory returned false while a sibling directory, which a
\* negative depth would have reached, was still unvisited; List returned.
C6_Witness ==
    /\ pcL = "done" /\ StartDepth < 0 /\ ~opts.InTrash
    /\ \E i \in DOMAIN events :
          /\ events[i][1] = "ret" /\ ~events[i][3] /\ rem.parent[events[i][2]] # 0
          /\ \E sib \in Listing(rem.parent[events[i][2]]) :
                /\ sib # events[i][2] /\ rem.isDir[sib] /\ ~isHidden(sib, opts.Hidden)
                /\ ~Has("fetch", sib)
\* The entries no event before position i is about.
Untouched(i) == {n \in Nodes : \A j \in 1..(i - 1) : events[j][2] # n}

\* C7 as stated: a fetch error for D aborts only the branch of D, so that
\* when List has returned the sibling directories of D and the other roots
\* have all been traversed.
C7_OnlyBranchAborted ==
    pcL = "done" =>
        \A i \in DOMAIN events :
            events[i][1] = "error" =>
                LET D == events[i][2]
                IN /\ \A r \in Listing(0) : Has("ret", r)
                   /\ \A sib \in Listing(rem.parent[D]) :
                         (rem.isDir[sib] /\ ~isHidden(sib, opts.Hidden)) => Has("ret", sib)

\* C7, amended: a fetch error for D aborts the whole invocation: an entry
\* outside the path from D to its root that was not visited before the error
\* is never visited, and the loop of List stays at the root of D.
C7_ErrorAbortsInvocation ==
    \A i \in DOMAIN events :
        events[i][1] = "error" =>
            LET D == events[i][2]
            IN /\ \A j \in (i + 1)..Len(events) :
                     events[j][2] \notin Untouched(i) \ Ancestors(D)
               /\ kvList[kvIdx] = RootOf(D)
               /\ (stack = <<>>) => pcL \in {"stop", "done"}

\* List returned after the fetch of a directory D below a root failed, and
\* a later root was never visited.
C7_Witness ==
    /\ pcL = "done"
    /\ \E i \in DOMAIN events :
          /\ events[i][1] = "error" /\ Level(events[i][2]) >= 1
          /\ \E r \in Listing(0) :
                r > RootOf(events[i][2]) /\ \A j \in DOMAIN events : events[j][2] # r
SetMax(S) == CHOOSE x \in S : \A y \in S : y <= x
SetMin(S) == CHOOSE x \in S : \A y \in S : x <= y

\* The positions of the events of the call for a and of the calls below it
\* (the line of a itself belongs to the level of its parent).
Span(a) ==
    {i \in DOMAIN events :
        /\ events[i][2] \in Subtree(a)
        /\ ~(events[i][1] = "render" /\ events[i][2] = a /\ rem.parent[a] # 0)}

\* The render events about the listing of f, in order.
LevelLines(f) == SelectSeq(events, LAMBDA e : e[1] = "render" /\ e[2] \in Listing(f))

\* The first and last position of the span of every visited entry.
SpanRange ==
    {<<a, SetMin(Span(a)), SetMax(Span(a))>> : a \in {n \in Nodes : Span(n) # {}}}

Visible(n) == \A a \in Ancestors(n) : rem.parent[a] # 0 => ~isHidden(a, opts.Hidden)

\* No fetch error, no nil entry and no declined prompt so far.
NoError == \A i \in DOMAIN events : events[i][1] # "error"
NoDecline == \A i \in DOMAIN events : ~(events[i][1] = "prompt" /\ ~events[i][3])
NoNilEntry == \A i \in DOMAIN events : events[i][1] # "nil"

C9_Exhausted ==
    (pcL = "done" /\ StartDepth < 0 /\ NoError /\ NoDecline /\ NoNilEntry /\ ~opts.InTrash) =>
        \A n \in Nodes :
            Visible(n) =>
                /\ rem.isDir[n] => Has("fetch", n)
                /\ (rem.parent[n] # 0 /\ ShouldRender(n)) => Has("render", n)

ChildDepth(f) == IF StartDepth < 0 THEN StartDepth ELSE StartDepth - Level(f) - 1

\* None of the conditions that skip the prompt holds for directory f.
PromptDue(f) ==
    /\ ChildDepth(f) # 0
    /\ \E c \in Listing(f) : rem.isDir[c] /\ ~isHidden(c, opts.Hidden)
    /\ ~trav0.explicitNoPrompt
    /\ opts.canPrompt
    /\ ~trav0.inTrash /\ ~opts.InTrash

\* C10: the prompt is never shown when the children's depth is 0, the level
\* has no directory children, explicitNoPrompt is set, opts.canPrompt() is
\* false or the traversal is in trash mode; it is shown when none of these
\* holds and the fetch of the level completed.
C10_PromptGate ==
    /\ \A i \in DOMAIN events : events[i][1] = "prompt" => PromptDue(events[i][2])
    /\ \A k \in DOMAIN stack :
          LET fr == stack[k]
          IN (/\ fr.pc \in {"children", "ret"}
              /\ ~Has("error", fr.file) /\ ~Has("nil", fr.file)
              /\ PromptDue(fr.file)) => Has("prompt", fr.file)

\* With explicitNoPrompt set and prompting otherwise possible, a level with
\* a directory child went on to its children without a prompt.
C10_Witness ==
    /\ trav0.explicitNoPrompt /\ opts.canPrompt /\ ~trav0.inTrash /\ ~opts.InTrash
    /\ stack # <<>> /\ Top.pc = "children" /\ Top.depth # 0
    /\ ~Has("prompt", Top.file)

----------------------------------------------------------------------------
\* C11: in every state in which the engine waits for the user's answer to
\* the continuation prompt, the indicator is paused, not playing.
C11_PausedAtPrompt ==
    \A k \in DOMAIN stack : stack[k].pc = "prompt" => spin = "paused"

----------------------------------------------------------------------------
\* The traversal runs in trash mode.
TrashMode == opts.InTrash \/ (entry = "breadthFirst" /\ trav0.inTrash)

\* The listing of directory f was fetched to its end: no error, no nil entry.
FetchedWhole(f) == Has("fetch", f) /\ ~Has("error", f) /\ ~Has("nil", f)

\* The prompt of directory f was declined.
Declined(f) == \E i \in EvAt("prompt", f) : ~events[i][3]

\* No listing of a child of f was fetched.
NotRecursed(f) == \A c \in Nodes : rem.parent[c] = f => ~Has("fetch", c)

\* An entry of the listing of f was rendered.
RenderedOne(f) == \E n \in Nodes : rem.parent[n] = f /\ Has("render", n)

\* C12 as stated: a directory whose listing was fetched and whose children
\* were not recursed into, in trash mode or on a branch otherwise terminal,
\* returns true exactly when an entry of it was rendered.
C12_TerminalNeedsRender ==
    \A i \in DOMAIN events :
        (events[i][1] = "ret" /\ FetchedWhole(events[i][2])
           /\ ~Declined(events[i][2]) /\ NotRecursed(events[i][2])) =>
            (events[i][3] <=> RenderedOne(events[i][2]))

\* C12, amended: in trash mode a directory whose listing was fetched to its
\* end returns true exactly when an entry of it was rendered, no call is
\* made for a child and no prompt is shown; outside trash mode a directory
\* none of whose children was fetched returns true once its listing is
\* fetched to its end and its prompt, if shown, accepted.
C12_TrashResult ==
    /\ TrashMode =>
          /\ Len(stack) <= 1
          /\ \A i \in DOMAIN events :
                /\ events[i][1] # "prompt"
                /\ events[i][1] # "render" => rem.parent[events[i][2]] = 0
                /\ (events[i][1] = "ret" /\ FetchedWhole(events[i][2])) =>
                       (events[i][3] <=> RenderedOne(events[i][2]))
    /\ ~TrashMode =>
          \A i \in DOMAIN events :
              (events[i][1] = "ret" /\ FetchedWhole(events[i][2])
                 /\ ~Declined(events[i][2]) /\ NotRecursed(events[i][2])) =>
                  events[i][3]

\* In trash mode a directory that holds a directory returned true after
\* rendering it.
C12_Witness ==
    /\ TrashMode /\ stack = <<>>
    /\ \E i \in DOMAIN events :
          /\ events[i][1] = "ret" /\ FetchedWhole(events[i][2]) /\ events[i][3]
          /\ \E c \in Nodes : /\ rem.parent[c] = events[i][2] /\ rem.isDir[c]
                               /\ Has("render", c)

----------------------------------------------------------------------------
\* The returns of the calls an entry point made for its roots, in order.
RootRets == SelectSeq(events, LAMBDA e : e[1] = "ret" /\ rem.parent[e[2]] = 0)

\* The locators resolved so far that were not found.
NotFound == {k \in 1..(ep.srcIdx - 1) : ep.sources[k] = 0}

\* No lookup of List fails with another error than not-found.
Resolvable == \A k \in DOMAIN ep.sources : ep.sources[k] # -1

Failing == {k \in DOMAIN ep.sources : ep.sources[k] = -1}

\* C14: in List a lookup error other than not-found makes List return a
\* non-nil error at once: the locators after it are not resolved, no root is
\* traversed or rendered, not even one resolved before, and the indicator is
\* never started.
C14_LookupErrorAborts ==
    (entry = "List" /\ Failing # {}) =>
        /\ events = <<>> /\ stack = <<>>
        /\ spin = "idle"
        /\ pcL \in {"resolve", "done"}
        /\ \A k \in Failing : ep.srcIdx <= k
        /\ pcL = "done" => (err = "error" /\ ep.srcIdx \in Failing)

\* List returned an error for its second locator, with a root resolved
\* before it and a locator left unresolved after it.
C14_Witness ==
    /\ entry = "List" /\ pcL = "done" /\ err = "error"
    /\ ep.srcIdx = 2 /\ ep.sources[1] > 0 /\ Len(ep.sources) > 2
    /\ ep.sources[2] = -1

----------------------------------------------------------------------------
\* The title clauses a query holds for the exact-title key of Meta.
TitleKeyClauses(q) == SelectSeq(q.titleSearches, LAMBDA c : c.values = "ExactTitleKey")

\* C15: exactMatch governs the mode of the title clauses createMatchQuery
\* builds: Is when it is true, Like when it is false; so the queries built
\* with true and with false from the same options differ in that mode
\* whenever a title key is present.
C15_ExactMatchGoverns ==
    pcL # "build" =>
        /\ \A i \in DOMAIN TitleKeyClauses(mq.query) :
              TitleKeyClauses(mq.query)[i].fuzzyLevel =
                  IF mq.exactMatch THEN "Is" ELSE "Like"
        /\ "ExactTitleKey" \in mq.meta =>
              createMatchQuery(BuilderOpts, TRUE).titleSearches
                  # createMatchQuery(BuilderOpts, FALSE).titleSearches

----------------------------------------------------------------------------
\* The files and the directories root directory d holds.
FilesIn(d) == {n \in Nodes : rem.parent[n] = d /\ ~rem.isDir[n]}
DirsIn(d) == {n \in Nodes : rem.parent[n] = d /\ rem.isDir[n]}

\* Under the directories-only mask and depth = 1: no file line is written,
\* every directory of the root that is not hidden gets its one line, and
\* nothing but the root is fetched.
C16_Outcome ==
    (opts.dirsOnly /\ StartDepth = 1) =>
        /\ \A i \in DOMAIN events :
              /\ events[i][1] = "render" => rem.isDir[events[i][2]]
              /\ events[i][1] = "fetch" => rem.parent[events[i][2]] = 0
        /\ \A n \in Nodes : Cardinality(EvAt("render", n)) <= 1
        /\ (pcL = "done" /\ NoError /\ NoNilEntry) =>
              \A r \in DirsIn(0) : \A n \in DirsIn(r) :
                  ~isHidden(n, opts.Hidden) => Has("render", n)

\* C16 as stated: the outcome above, the partition-and-render step being
\* what keeps the non-directory entries it is given out of the output under
\* that mask.
C16_RenderStepSuppresses ==
    /\ C16_Outcome
    /\ opts.dirsOnly => \A n \in Nodes : ~rem.isDir[n] => Rendered(<<n>>) = <<>>

\* C16, amended: the outcome above, the expression of the fetch being what
\* keeps the non-directory entries out of the listing under that mask; the
\* partition-and-render step writes the line of every non-directory entry
\* it is given and collects every directory entry as a child.
C16_DirsOnlyDepthOne ==
    /\ C16_Outcome
    /\ opts.dirsOnly =>
          /\ \A d, n \in Nodes : n \in Listing(d) => rem.isDir[n]
          /\ \A n \in Nodes :
                /\ ~rem.isDir[n] => Rendered(<<n>>) = <<n>>
                /\ rem.isDir[n] => Children(<<n>>) = <<n>>

\* The scenario: a root with two files and one directory was listed under
\* the directories-only mask with depth = 1, and one line was written.
C16_Witness ==
    /\ opts.dirsOnly /\ StartDepth = 1 /\ pcL = "done"
    /\ Cardinality(FilesIn(1)) = 2 /\ Cardinality(DirsIn(1)) = 1
    /\ Len(Renders(events)) = 1
    /\ \A n \in DirsIn(1) : Has("render", n) /\ Has("ret", n)

----------------------------------------------------------------------------
\* What a traversal without the non-folders-only mask does when no fetch
\* fails, no nil entry arrives and no prompt is declined.

\* The result of the call for root r: only a directory listed in trash mode
\* with no entry to render returns false.
UnmaskedOK(r) ==
    \/ ~rem.isDir[r] \/ opts.Depth = 0 \/ ~opts.InTrash
    \/ \E n \in Listing(r) : ~isHidden(n, opts.Hidden)

\* The roots the range loop reaches: those after which no call returned
\* false.
UnmaskedRoots == {kvList[i] : i \in {j \in DOMAIN kvList : \A h \in 1..(j - 1) : UnmaskedOK(kvList[h])}}

\* The directories it fetches.
UnmaskedFetched ==
    {n \in Nodes : /\ rem.isDir[n] /\ RootOf(n) \in UnmaskedRoots /\ Visible(n)
                   /\ (opts.Depth < 0 \/ Level(n) < opts.Depth)
                   /\ (opts.InTrash => Level(n) = 0)}

Fetched == {n \in Nodes : Has("fetch", n)}

\* The traversal is over and nothing cut a listing short.
Undisturbed == pcL = "done" /\ NoError /\ NoNilEntry /\ NoDecline

\* C17 as stated: under the non-folders-only mask no directory entry is
\* rendered, and the directories are explored exactly as without the mask:
\* the same fetches.
C17_SameFetches ==
    /\ opts.onlyFiles => \A i \in DOMAIN events :
                             events[i][1] = "render" => ~rem.isDir[events[i][2]]
    /\ Undisturbed => Fetched = UnmaskedFetched

\* C17, amended: under the non-folders-only mask no directory entry is
\* rendered, every directory entry collected is a child whatever the mask,
\* and outside trash mode the fetches are those of a traversal without the
\* mask; in trash mode a listing counts only the lines written, so a
\* directory that lists directories only returns false under the mask.
C17_OnlyFilesStillExplores ==
    /\ opts.onlyFiles => \A i \in DOMAIN events :
                             events[i][1] = "render" => ~rem.isDir[events[i][2]]
    /\ \A k \in DOMAIN stack :
          stack[k].pc \in {"prompt", "children"} =>
              /\ stack[k].children = SelectSeq(stack[k].collector, LAMBDA n : rem.isDir[n])
              /\ \A n \in Listing(stack[k].file) :
                    (rem.isDir[n] /\ ~isHidden(n, opts.Hidden)) =>
                        \E c \in DOMAIN stack[k].children : stack[k].children[c] = n
    /\ (Undisturbed /\ ~(opts.onlyFiles /\ opts.InTrash)) => Fetched = UnmaskedFetched
    /\ (opts.onlyFiles /\ opts.InTrash) =>
          \A i \in DOMAIN events :
              (events[i][1] = "ret" /\ FetchedWhole(events[i][2])) =>
                  (events[i][3] <=> \E n \in FilesIn(events[i][2]) : Has("render", n))

\* Under the mask and outside trash mode a traversal ended undisturbed: a
\* directory of a listing was fetched without its line being written, and a
\* file below it was rendered.
C17_Witness ==
    /\ opts.onlyFiles /\ ~opts.InTrash /\ Undisturbed
    /\ \E n \in Nodes : /\ Level(n) = 1 /\ rem.isDir[n] /\ Has("fetch", n)
                         /\ ~Has("render", n)
                         /\ \E m \in FilesIn(n) : Has("render", m)

----------------------------------------------------------------------------
\* C18: the pause of a breadthFirst call is followed by the play of the same
\* call before it fetches, recurses or returns, so the indicator is paused
\* only while the innermost call works out its canPrompt and no caller is
\* left paused; and an entry point that has returned has stopped the
\* indicator if it ever started it, on its error returns too.
C18_SpinBalanced ==
    /\ spin = "paused" <=> (stack # <<>> /\ Top.pc = "pause")
    /\ \A k \in 1..(Len(stack) - 1) : stack[k].pc = "children"
    /\ (stack # <<>> /\ Top.pc # "pause") => spin = "playing"
    /\ pcL = "done" =>
          /\ stack = <<>>
          /\ spin \in {"idle", "stopped"}
          /\ spin = "idle" => (entry = "List" /\ err = "error" /\ events = <<>>)
    /\ (pcL # "done" /\ entry \in {"ListShared", "ListMatches"}) => spin # "idle"

\* ListMatches returned the error of its channel after a traversal had
\* paused and played the indicator, and the indicator is stopped.
C18_Witness ==
    /\ entry = "ListMatches" /\ pcL = "done" /\ err = "error"
    /\ \E n \in Nodes : Has("fetch", n)
    /\ spin = "stopped"

\* The returns of root calls that were false.
FailedRoots == {i \in DOMAIN events : /\ events[i][1] = "ret" /\ ~events[i][3]
                                       /\ rem.parent[events[i][2]] = 0}

\* C19: in ListMatches, once breadthFirst returns false for a match the
\* consuming loop stops: nothing is fetched, rendered, prompted or returned
\* for a later match.
C19_MatchLoopStops ==
    entry = "ListMatches" => \A i \in FailedRoots : i = Len(events)

\* C20: in List and ListShared, once breadthFirst returns false for a root
\* nothing more is fetched, rendered or prompted, no later root is
\* traversed, and the entry point returns nil.
C20_RootLoopStops ==
    (entry \in {"List", "ListShared"} /\ FailedRoots # {}) =>
        /\ \A i \in FailedRoots : i = Len(events)
        /\ stack = <<>>
        /\ pcL \in {"stop", "done"}
        /\ pcL = "done" => err = "nil"
        /\ Len(RootRets) = kvIdx

\* ListShared returned nil after the call for its first root returned
\* false, a later root left untraversed.
C20_Witness ==
    /\ entry = "ListShared" /\ pcL = "done" /\ err = "nil"
    /\ FailedRoots # {} /\ kvIdx = 1 /\ Len(kvList) >= 2
    /\ ~Has("ret", kvList[2])
====
